---- MODULE Spec2Model ----
(***************************************************************************)
(* A model of twitter.pants.base.build_cache (BuildCache, SourceScope,     *)
(* CacheKey) over an explicit filesystem.                                  *)
(*                                                                         *)
(* Strings are sequences of one-character strings, so that concatenation,  *)
(* ordering, startswith and strip are computed as CPython computes them.   *)
(* A path string is a record [abs, parts]: whether it starts with "/" and  *)
(* its components.  The filesystem maps absolute component sequences to    *)
(* directories and to file contents.  The semantics are CPython 2 on POSIX *)
(* (the module declares __metaclass__ and compares the marker it reads     *)
(* with a str).                                                            *)
(***************************************************************************)
EXTENDS Integers, Sequences, FiniteSets, TLC

VARIABLES fs, root, ids, last, prev, cur, changes, sys, env, procs

vars == <<fs, root, ids, last, prev, cur, changes, sys, env, procs>>

(***************************************************************************)
(* Bounds of the model.                                                    *)
(***************************************************************************)
MaxArtifacts == 2
MaxContent == 2
MaxChanges == 1
MaxNew == 2
MaxAppend == 1

(***************************************************************************)
(* Strings.                                                                *)
(***************************************************************************)
Ord(c) ==
    CASE c = "\n" -> 10
      [] c = " " -> 32
      [] c = "." -> 46
      [] c = "/" -> 47
      [] c = "0" -> 48
      [] c = "1" -> 49
      [] c = "2" -> 50
      [] c = "6" -> 54
      [] c = "a" -> 97
      [] c = "b" -> 98
      [] c = "c" -> 99
      [] c = "d" -> 100
      [] c = "e" -> 101
      [] c = "f" -> 102
      [] c = "h" -> 104
      [] c = "m" -> 109
      [] c = "o" -> 111
      [] c = "p" -> 112
      [] c = "s" -> 115
      [] c = "w" -> 119
      [] c = "x" -> 120
      [] c = "y" -> 121

RECURSIVE StrLess(_, _)
StrLess(s, t) ==
    IF t = <<>> THEN FALSE
    ELSE IF s = <<>> THEN TRUE
    ELSE IF Ord(Head(s)) < Ord(Head(t)) THEN TRUE
    ELSE IF Ord(Head(s)) > Ord(Head(t)) THEN FALSE
    ELSE StrLess(Tail(s), Tail(t))

StartsWith(s, pre) ==
    /\ Len(pre) <= Len(s)
    /\ SubSeq(s, 1, Len(pre)) = pre

Whitespace == {" ", "\n"}

RECURSIVE LStrip(_)
LStrip(s) ==
    IF s # <<>> /\ Head(s) \in Whitespace THEN LStrip(Tail(s)) ELSE s

RECURSIVE RStrip(_)
RStrip(s) ==
    IF s # <<>> /\ s[Len(s)] \in Whitespace
    THEN RStrip(SubSeq(s, 1, Len(s) - 1))
    ELSE s

Strip(s) == RStrip(LStrip(s))

\* sorted(xs) under a strict order given by the key strings: insertion sort,
\* stable as Python's sort is.
RECURSIVE InsertSorted(_, _, _)
InsertSorted(x, kx, xs) ==
    IF xs = <<>> THEN <<x>>
    ELSE IF StrLess(kx, Head(xs).key) THEN <<x>> \o xs
    ELSE <<Head(xs)>> \o InsertSorted(x, kx, Tail(xs))

RECURSIVE SortKeyed(_)
SortKeyed(xs) ==
    IF xs = <<>> THEN <<>>
    ELSE LET rest == SortKeyed(SubSeq(xs, 1, Len(xs) - 1))
             x == xs[Len(xs)]
         IN  InsertSorted(x, x.key, rest)

(***************************************************************************)
(* Paths (os.path on POSIX).                                               *)
(***************************************************************************)
Sep == <<"/">>
DotDot == <<".", ".">>
DotHash == <<".", "h", "a", "s", "h">>

AbsPath(parts) == [abs |-> TRUE, parts |-> parts]
RelPath(parts) == [abs |-> FALSE, parts |-> parts]

RECURSIVE JoinParts(_)
JoinParts(parts) ==
    IF parts = <<>> THEN <<>>
    ELSE IF Len(parts) = 1 THEN parts[1]
    ELSE parts[1] \o Sep \o JoinParts(Tail(parts))

\* The characters of a path string.
PathStr(p) ==
    IF p.abs THEN Sep \o JoinParts(p.parts)
    ELSE IF p.parts = <<>> THEN <<".">>
    ELSE JoinParts(p.parts)

os_path_join(a, b) ==
    IF b.abs THEN b ELSE [abs |-> a.abs, parts |-> a.parts \o b.parts]

os_path_basename(p) ==
    IF p.parts = <<>> THEN RelPath(<<>>) ELSE RelPath(<<p.parts[Len(p.parts)]>>)

os_path_dirname(p) ==
    IF p.parts = <<>> THEN p
    ELSE [abs |-> p.abs, parts |-> SubSeq(p.parts, 1, Len(p.parts) - 1)]

\* path + suffix: the suffix is appended to the last component.
PathPlus(p, suffix) ==
    [abs |-> p.abs,
     parts |-> SubSeq(p.parts, 1, Len(p.parts) - 1)
                 \o <<p.parts[Len(p.parts)] \o suffix>>]

\* The process's working directory.
Cwd == << <<"w">> >>

RECURSIVE NormParts(_, _)
NormParts(done, todo) ==
    IF todo = <<>> THEN done
    ELSE IF Head(todo) = DotDot
         THEN NormParts(IF done = <<>> THEN <<>>
                        ELSE SubSeq(done, 1, Len(done) - 1), Tail(todo))
    ELSE NormParts(Append(done, Head(todo)), Tail(todo))

\* The filesystem node a path string names.
Resolve(p) == NormParts(<<>>, IF p.abs THEN p.parts ELSE Cwd \o p.parts)

IsPrefix(p, q) == Len(p) <= Len(q) /\ SubSeq(q, 1, Len(p)) = p

RECURSIVE CommonLen(_, _)
CommonLen(p, q) ==
    IF p = <<>> \/ q = <<>> \/ Head(p) # Head(q) THEN 0
    ELSE 1 + CommonLen(Tail(p), Tail(q))

\* posixpath.relpath on resolved paths p and s sharing their first n parts.
RelNode(p, s, n) ==
    RelPath([i \in 1..(Len(s) - n) |-> DotDot] \o SubSeq(p, n + 1, Len(p)))

RelFrom(p, s) == RelNode(p, s, CommonLen(p, s))

os_path_relpath(path, start) == RelFrom(Resolve(path), Resolve(start))

(***************************************************************************)
(* The filesystem: the set of directories and the contents of the files,   *)
(* both keyed by resolved absolute paths (nodes).  The root directory <<>> *)
(* always exists.  An operation returns [err, fs]: err = "" on success,    *)
(* else the errno name of the exception CPython raises.                    *)
(***************************************************************************)
Ok(f) == [err |-> "", fs |-> f]
Fail(e, f) == [err |-> e, fs |-> f]

IsDirNode(f, n) == n \in f.dirs
IsFileNode(f, n) == n \in DOMAIN f.files
ExistsNode(f, n) == IsDirNode(f, n) \/ IsFileNode(f, n)

os_path_isdir(f, p) == IsDirNode(f, Resolve(p))
os_path_exists(f, p) == ExistsNode(f, Resolve(p))

ParentNode(n) == SubSeq(n, 1, Len(n) - 1)

\* Some proper ancestor of n is a regular file.
UnderFile(f, n) == \E k \in 0..(Len(n) - 1) : IsFileNode(f, SubSeq(n, 1, k))

Restrict(files, keep) == [n \in keep |-> files[n]]

\* shutil.rmtree(n, ignore_errors=True) on a directory: the whole subtree goes.
RemoveTree(f, n) ==
    [dirs |-> {d \in f.dirs : ~IsPrefix(n, d)},
     files |-> Restrict(f.files, {x \in DOMAIN f.files : ~IsPrefix(n, x)})]

RmtreeNode(f, n) == IF IsDirNode(f, n) /\ n # <<>> THEN RemoveTree(f, n) ELSE f

\* twitter.common.dirutil.safe_rmtree: removes a directory tree if present and
\* swallows every error, so a regular file at the path stays.
safe_rmtree(f, p) == RmtreeNode(f, Resolve(p))

MakeNode(f, n) ==
    IF ExistsNode(f, n) THEN Fail("EEXIST", f)
    ELSE IF UnderFile(f, n) THEN Fail("ENOTDIR", f)
    ELSE Ok([f EXCEPT !.dirs = @ \cup {SubSeq(n, 1, k) : k \in 0..Len(n)}])

\* os.makedirs(p): every missing ancestor and p itself.
os_makedirs(f, p) == MakeNode(f, Resolve(p))

WriteNode(f, n, data) ==
    IF IsDirNode(f, n) THEN Fail("EISDIR", f)
    ELSE IF UnderFile(f, n) THEN Fail("ENOTDIR", f)
    ELSE IF ~IsDirNode(f, ParentNode(n)) THEN Fail("ENOENT", f)
    ELSE Ok([f EXCEPT !.files =
                [x \in DOMAIN f.files \cup {n} |-> IF x = n THEN data ELSE f.files[x]]])

\* open(p, 'w').write(data)
WriteFile(f, p, data) == WriteNode(f, Resolve(p), data)

ReadNode(f, n) ==
    IF IsFileNode(f, n) THEN [err |-> "", data |-> f.files[n]]
    ELSE IF IsDirNode(f, n) THEN [err |-> "EISDIR", data |-> <<>>]
    ELSE IF UnderFile(f, n) THEN [err |-> "ENOTDIR", data |-> <<>>]
    ELSE [err |-> "ENOENT", data |-> <<>>]

\* open(p, 'rb').read(): [err, data]
ReadFile(f, p) == ReadNode(f, Resolve(p))

UnlinkNode(f, n) ==
    IF IsFileNode(f, n) THEN Ok([f EXCEPT !.files = Restrict(@, DOMAIN @ \ {n})])
    ELSE IF IsDirNode(f, n) THEN Fail("EISDIR", f)
    ELSE Fail("ENOENT", f)

os_unlink(f, p) == UnlinkNode(f, Resolve(p))

CopyNode(f, s, d) ==
    IF IsDirNode(f, s) THEN Fail("EISDIR", f)
    ELSE IF ~IsFileNode(f, s) THEN Fail("ENOENT", f)
    ELSE IF d = s THEN Fail("SameFile", f)
    ELSE WriteNode(f, d, f.files[s])

\* shutil.copy(src, dst): into dst/basename(src) when dst is a directory.
shutil_copy(f, src, dst) ==
    CopyNode(f, Resolve(src),
             Resolve(IF os_path_isdir(f, dst)
                     THEN os_path_join(dst, os_path_basename(src)) ELSE dst))

\* The tree at s copied below d in filesystem g.
GraftTree(g, s, d) ==
    [dirs |-> g.dirs \cup {d \o SubSeq(x, Len(s) + 1, Len(x)) :
                             x \in {y \in g.dirs : IsPrefix(s, y)}},
     files |-> [x \in DOMAIN g.files
                        \cup {d \o SubSeq(y, Len(s) + 1, Len(y)) :
                                y \in {z \in DOMAIN g.files : IsPrefix(s, z)}} |->
                  IF x \in DOMAIN g.files THEN g.files[x]
                  ELSE g.files[s \o SubSeq(x, Len(d) + 1, Len(x))]]]

CopyTreeNode(f, made, s, d) ==
    IF ~IsDirNode(f, s) THEN Fail("ENOENT", f)
    ELSE IF made.err # "" THEN made
    ELSE IF IsPrefix(s, d) THEN Fail("ELOOP", made.fs)
    ELSE Ok(GraftTree(made.fs, s, d))

\* shutil.copytree(src, dst): dst must not exist; it is created with its
\* parents and the tree under src is copied below it.
shutil_copytree(f, src, dst) ==
    CopyTreeNode(f, os_makedirs(f, dst), Resolve(src), Resolve(dst))

\* The tree below a node, keyed by paths relative to it: what an observer of
\* that directory sees.  A missing node is the empty view.
SubTree(f, n) ==
    [dirs |-> {SubSeq(x, Len(n) + 1, Len(x)) : x \in {y \in f.dirs : IsPrefix(n, y)}},
     files |-> {<<SubSeq(y, Len(n) + 1, Len(y)), f.files[y]>> :
                  y \in {z \in DOMAIN f.files : IsPrefix(n, z)}}]

(***************************************************************************)
(* hashlib.sha1.  The accumulator is the sequence of bytes fed to it, and  *)
(* SHA-1 is taken to be injective on that sequence: hexdigest() is the     *)
(* lower-case hexadecimal of the bytes (two digits per byte).              *)
(***************************************************************************)
HexDigits ==
    <<"0", "1", "2", "3", "4", "5", "6", "7", "8", "9", "a", "b", "c", "d", "e", "f">>

HexByte(n) == <<HexDigits[(n \div 16) + 1], HexDigits[(n % 16) + 1]>>

RECURSIVE hexdigest(_)
hexdigest(sha) ==
    IF sha = <<>> THEN <<>> ELSE HexByte(Ord(Head(sha))) \o hexdigest(Tail(sha))

(***************************************************************************)
(* BuildCache.                                                             *)
(***************************************************************************)
\* BuildCache.VERSION
VERSION == 0

\* str(BuildCache.VERSION)
VersionStr == <<HexDigits[VERSION + 1]>>

\* CacheKey = namedtuple('CacheKey', ['sources', 'hash', 'filename'])
CacheKey(sources, hash, filename) ==
    [sources |-> sources, hash |-> hash, filename |-> filename]

NoKey == CacheKey(<<>>, <<>>, RelPath(<<>>))

\* BuildCache.__init__: self._root
init_root(base) == os_path_join(base, RelPath(<<VersionStr>>))

\* BuildCache.__init__: os.makedirs(self._root), EEXIST ignored.
init_fs(f, base) == os_makedirs(f, init_root(base)).fs

_key_for(r, id, sha, sources) ==
    CacheKey(sources, hexdigest(sha), os_path_join(r, id))

_sha_file(r, cache_key) ==
    PathPlus(os_path_join(r, cache_key.filename), DotHash)

\* The marker is created but an existing one is never overwritten.
_write_sha_once(f, r, cache_key) ==
    IF os_path_exists(f, _sha_file(r, cache_key)) THEN Ok(f)
    ELSE WriteFile(f, _sha_file(r, cache_key), cache_key.hash)

\* [err, fs]
_write_sha(f, r, cache_key) ==
    WriteFile(f, _sha_file(r, cache_key), cache_key.hash)

\* _read_sha, lines 198-201, on what open().read() gave: [exc, none, val], the
\* exception raised, else whether None is returned, else the stripped marker.
read_result(got) ==
    IF got.err = "" THEN [exc |-> "", none |-> FALSE, val |-> Strip(got.data)]
    ELSE IF got.err # "ENOENT" THEN [exc |-> "IOError", none |-> FALSE, val |-> <<>>]
    ELSE [exc |-> "", none |-> TRUE, val |-> <<>>]

_read_sha(f, r, cache_key) == read_result(ReadFile(f, _sha_file(r, cache_key)))

\* needs_update, line 119: cached_sha != cache_key.hash
differs(cached_sha, hash) ==
    IF cached_sha.exc # "" THEN [exc |-> cached_sha.exc, ret |-> FALSE]
    ELSE [exc |-> "", ret |-> cached_sha.none \/ cached_sha.val # hash]

\* [exc, ret]
needs_update(f, r, cache_key) ==
    differs(_read_sha(f, r, cache_key), cache_key.hash)

\* invalidate, lines 109-110, after the entry directory is removed.
unlink_marker(f1, sha_file) ==
    IF ~os_path_exists(f1, sha_file) THEN [exc |-> "", fs |-> f1]
    ELSE IF IsDirNode(f1, Resolve(sha_file)) THEN [exc |-> "OSError", fs |-> f1]
    ELSE [exc |-> "", fs |-> os_unlink(f1, sha_file).fs]

\* [exc, fs]
invalidate(f, r, cache_key) ==
    unlink_marker(safe_rmtree(f, cache_key.filename), _sha_file(r, cache_key))

\* The destination is always the base name; artifact_root is ignored.
rel_path_base(artifact, artifact_root) == os_path_basename(artifact)

\* update, lines 134-136: the destination of an artifact relative to the entry.
\* artifact_root is <<>> for None, else <<path>>.
rel_path_of(artifact, artifact_root) ==
    IF artifact_root = <<>> THEN os_path_basename(artifact)
    ELSE os_path_relpath(artifact, artifact_root[1])

\* The assertion left out: every rel_path is accepted.
rel_path_any(rel_path) == TRUE

\* update, lines 137-138: the assertion on rel_path.
rel_path_ok(rel_path) == ~StartsWith(PathStr(rel_path), DotDot)

\* update, lines 143-146: the copy, and what it raises.  IOError, OSError and
\* shutil.Error are all EnvironmentError.  `faulty` is an I/O error of the
\* environment (disk full, permission) raised by the copy.
copy_result(copied) ==
    [exc |-> IF copied.err # "" THEN "EnvironmentError" ELSE "", fs |-> copied.fs]

stage_copy(made, artifact, artifact_dest, faulty) ==
    IF made.err # "" THEN [exc |-> "EnvironmentError", fs |-> made.fs]
    ELSE IF faulty THEN [exc |-> "EnvironmentError", fs |-> made.fs]
    ELSE copy_result(IF os_path_isdir(made.fs, artifact)
                     THEN shutil_copytree(made.fs, artifact, artifact_dest)
                     ELSE shutil_copy(made.fs, artifact, artifact_dest))

\* update, lines 140-142: dir_name is created unless it exists.
stage_dest(f, artifact, artifact_dest, dir_name, faulty) ==
    stage_copy(IF os_path_exists(f, dir_name) THEN Ok(f) ELSE os_makedirs(f, dir_name),
               artifact, artifact_dest, faulty)

\* update, lines 137-146, for one artifact with its rel_path.  [exc, fs]
stage_rel(f, cache_key, artifact, rel_path, faulty) ==
    IF ~rel_path_ok(rel_path) THEN [exc |-> "AssertionError", fs |-> f]
    ELSE stage_dest(f, artifact, os_path_join(cache_key.filename, rel_path),
                    os_path_dirname(os_path_join(cache_key.filename, rel_path)), faulty)

\* update, lines 134-146: one artifact is staged.  [exc, fs]
stage_artifact(f, cache_key, artifact, artifact_root, faulty) ==
    stage_rel(f, cache_key, artifact, rel_path_of(artifact, artifact_root), faulty)

\* update, lines 133-146: the loop over build_artifacts from index i on.
\* [exc, fs, copied]: copied lists the indices of the artifacts staged.
RECURSIVE stage_all(_, _, _, _, _, _, _)
RECURSIVE stage_next(_, _, _, _, _, _, _)
stage_all(f, cache_key, build_artifacts, artifact_root, fault, i, copied) ==
    IF i > Len(build_artifacts) THEN [exc |-> "", fs |-> f, copied |-> copied]
    ELSE stage_next(stage_artifact(f, cache_key, build_artifacts[i], artifact_root,
                                   fault = i),
                    cache_key, build_artifacts, artifact_root, fault, i, copied)
stage_next(one, cache_key, build_artifacts, artifact_root, fault, i, copied) ==
    IF one.exc # "" THEN [exc |-> one.exc, fs |-> one.fs, copied |-> copied]
    ELSE stage_all(one.fs, cache_key, build_artifacts, artifact_root, fault, i + 1,
                   Append(copied, i))

\* update, line 147, after the loop.  wrote tells whether the marker file was
\* written.
mark_result(marked, copied) ==
    [exc |-> IF marked.err # "" THEN "IOError" ELSE "", fs |-> marked.fs,
     copied |-> copied, wrote |-> marked.err = ""]

finish_update(staged, r, cache_key) ==
    IF staged.exc # ""
    THEN [exc |-> staged.exc, fs |-> staged.fs, copied |-> staged.copied, wrote |-> FALSE]
    ELSE mark_result(_write_sha(staged.fs, r, cache_key), staged.copied)

\* The entry directory is not cleared first: artifacts are copied over what is
\* there.
update_over(f, r, cache_key, build_artifacts, artifact_root, fault) ==
    finish_update(stage_all(f, cache_key, build_artifacts, artifact_root, fault, 1, <<>>),
                  r, cache_key)

\* [exc, fs, copied, wrote]
update(f, r, cache_key, build_artifacts, artifact_root, fault) ==
    finish_update(stage_all(safe_rmtree(f, cache_key.filename), cache_key,
                            build_artifacts, artifact_root, fault, 1, <<>>),
                  r, cache_key)

(***************************************************************************)
(* Walking and fingerprinting.  The order in which the OS lists a          *)
(* directory is an input: a listing maps every directory to the order of   *)
(* its subdirectory names and of its file names.                           *)
(***************************************************************************)
ChildDirs(f, n) == {d[Len(d)] : d \in {x \in f.dirs : x # <<>> /\ ParentNode(x) = n}}
ChildFiles(f, n) == {x[Len(x)] : x \in {y \in DOMAIN f.files : ParentNode(y) = n}}

Perms(S) ==
    {q \in [1..Cardinality(S) -> S] : \A i, j \in DOMAIN q : q[i] = q[j] => i = j}

\* Every order in which the OS may list the directories at and below node n.
Listings(f, n) ==
    LET D == {d \in f.dirs : IsPrefix(n, d)}
        U == UNION {[dirs : Perms(ChildDirs(f, d)), files : Perms(ChildFiles(f, d))]
                      : d \in D}
    IN  {ls \in [D -> U] :
           \A d \in D : /\ ls[d].dirs \in Perms(ChildDirs(f, d))
                        /\ ls[d].files \in Perms(ChildFiles(f, d))}

\* os.walk(top), top-down: (dirpath, dirnames, filenames) for top, then the
\* walk of each subdirectory in the order listed.
RECURSIVE os_walk(_, _, _)
RECURSIVE walk_subdirs(_, _, _, _)
os_walk(f, top, ls) ==
    <<[key |-> PathStr(top), dir_name |-> top, dirnames |-> ls[Resolve(top)].dirs,
       filenames |-> ls[Resolve(top)].files]>>
      \o walk_subdirs(f, top, ls[Resolve(top)].dirs, ls)
walk_subdirs(f, top, subs, ls) ==
    IF subs = <<>> THEN <<>>
    ELSE os_walk(f, os_path_join(top, RelPath(<<Head(subs)>>)), ls)
           \o walk_subdirs(f, top, Tail(subs), ls)

\* _walk_paths, lines 169-170: the pair yielded for one file.
walk_pair(path, filename) == [rel |-> os_path_relpath(filename, path), file |-> filename]

\* _walk_paths, lines 168-170: the files of one walked directory, in the
\* order listed.
walk_files(path, dir_name, filenames) ==
    [i \in 1..Len(filenames) |->
        walk_pair(path, os_path_join(dir_name, RelPath(<<filenames[i]>>)))]

RECURSIVE walk_tuples(_, _)
walk_tuples(path, tuples) ==
    IF tuples = <<>> THEN <<>>
    ELSE walk_files(path, Head(tuples).dir_name, Head(tuples).filenames)
           \o walk_tuples(path, Tail(tuples))

\* _walk_paths, lines 166-172, for one path.
walk_path(f, path, ls) ==
    IF os_path_isdir(f, path)
    THEN walk_tuples(path, SortKeyed(os_walk(f, path, ls)))
    ELSE <<[rel |-> os_path_basename(path), file |-> path]>>

\* _walk_paths, lines 165-172, over paths already sorted.
RECURSIVE walk_sorted(_, _, _)
walk_sorted(f, paths, ls) ==
    IF paths = <<>> THEN <<>>
    ELSE walk_path(f, Head(paths).path, ls) \o walk_sorted(f, Tail(paths), ls)

\* sorted(paths), each path with its string as the sort key.
Keyed(paths) == [i \in DOMAIN paths |-> [key |-> PathStr(paths[i]), path |-> paths[i]]]

\* The sequence of (relative_path, absolute_path) pairs _walk_paths yields.
_walk_paths(f, paths, ls) == walk_sorted(f, SortKeyed(Keyed(paths)), ls)

\* _sources_hash, lines 178-181: [exc, sha, reads] from the pairs still to
\* hash; reads counts the files opened.
RECURSIVE hash_files(_, _, _, _)
RECURSIVE hash_next(_, _, _, _, _)
hash_files(f, pairs, sha, reads) ==
    IF pairs = <<>> THEN [exc |-> "", sha |-> sha, reads |-> reads]
    ELSE hash_next(f, pairs, sha, reads, ReadFile(f, Head(pairs).file))
hash_next(f, pairs, sha, reads, got) ==
    IF got.err # "" THEN [exc |-> "IOError", sha |-> sha, reads |-> reads + 1]
    ELSE hash_files(f, Tail(pairs), sha \o PathStr(Head(pairs).rel) \o got.data,
                    reads + 1)

_sources_hash(f, paths, ls) == hash_files(f, _walk_paths(f, paths, ls), <<>>, 0)

\* key_for, line 77, on the hash computed.  [exc, key, reads]
key_of(hashed, r, id, sources) ==
    IF hashed.exc # "" THEN [exc |-> hashed.exc, key |-> NoKey, reads |-> hashed.reads]
    ELSE [exc |-> "", key |-> _key_for(r, id, hashed.sha, sources),
          reads |-> hashed.reads]

key_for(f, r, id, sources, ls) == key_of(_sources_hash(f, sources, ls), r, id, sources)

(***************************************************************************)
(* SourceScope and key_for_target.  A target is [id, expand_files, own,    *)
(* transitive]: whether it has an expand_files attribute, and what         *)
(* expand_files returns without and with recursive=True.  An optional      *)
(* argument is <<>> for None, else <<value>>.                              *)
(***************************************************************************)
NO_SOURCES == "NO_SOURCES"
TARGET_SOURCES == "TARGET_SOURCES"
TRANSITIVE_SOURCES == "TRANSITIVE_SOURCES"

\* SourceScope.valid
valid(scope, target) == target.expand_files

\* Scope.select: [exc, files]
select(scope, target) ==
    IF scope = NO_SOURCES THEN [exc |-> "", files |-> <<>>]
    ELSE IF ~target.expand_files THEN [exc |-> "AttributeError", files |-> <<>>]
    ELSE IF scope = TARGET_SOURCES THEN [exc |-> "", files |-> target.own]
    ELSE [exc |-> "", files |-> target.transitive]

\* sorted(paths) as a sequence of paths.
Unkeyed(keyed) == [i \in DOMAIN keyed |-> keyed[i].path]
SortPaths(paths) == Unkeyed(SortKeyed(Keyed(paths)))

\* key_for_target, lines 94-96: fingerprint_extra(sha), then the key.
extra_key(hashed, r, id, srcs, fingerprint_extra) ==
    IF hashed.exc # "" THEN [exc |-> hashed.exc, key |-> NoKey, reads |-> hashed.reads]
    ELSE [exc |-> "",
          key |-> _key_for(r, id, IF fingerprint_extra = <<>> THEN hashed.sha
                                  ELSE hashed.sha \o fingerprint_extra[1], srcs),
          reads |-> hashed.reads]

\* key_for_target, lines 92-96, on the sorted selection.
hash_target(f, r, id, srcs, fingerprint_extra, ls) ==
    extra_key(_sources_hash(f, srcs, ls), r, id, srcs, fingerprint_extra)

\* key_for_target, lines 89-96, on what the scope selected.
select_target(f, r, id, selected, fingerprint_extra, ls) ==
    IF selected.exc # "" THEN [exc |-> selected.exc, key |-> NoKey, reads |-> 0]
    ELSE hash_target(f, r, id, SortPaths(selected.files), fingerprint_extra, ls)

\* The guard asks only whether a selector was given, not whether it applies.
key_for_target_lax(f, r, target, sources, fingerprint_extra, ls) ==
    IF sources = <<>> /\ fingerprint_extra = <<>>
    THEN [exc |-> "ValueError", key |-> NoKey, reads |-> 0]
    ELSE select_target(f, r, target.id,
                       select(IF sources = <<>> THEN NO_SOURCES ELSE sources[1], target),
                       fingerprint_extra, ls)

\* [exc, key, reads]
key_for_target(f, r, target, sources, fingerprint_extra, ls) ==
    IF (sources = <<>> \/ ~valid(sources[1], target)) /\ fingerprint_extra = <<>>
    THEN [exc |-> "ValueError", key |-> NoKey, reads |-> 0]
    ELSE select_target(f, r, target.id,
                       select(IF sources = <<>> THEN NO_SOURCES ELSE sources[1], target),
                       fingerprint_extra, ls)

(***************************************************************************)
(* The store's environment: the build output area, the ids and the keys.   *)
(***************************************************************************)
Na == <<"a">>
Nb == <<"b">>
Nc == <<"c">>
Nd == <<"d">>
No == <<"o">>
Np == <<"p">>
Nx == <<"x">>
Ny == <<"y">>

\* Build outputs: the directory /o/d holding the file /o/d/y, and the file
\* /p/x, which lies outside /o.
ArtD == AbsPath(<<No, Nd>>)
ArtPX == AbsPath(<<Np, Nx>>)

BaseFS ==
    [dirs |-> {<<>>, Cwd, <<No>>, <<No, Nd>>, <<Np>>},
     files |-> (<<No, Nd, Ny>> :> <<"b">>) @@ (<<Np, Nx>> :> <<"a">>)]

Artifacts == {ArtD, ArtPX}

RECURSIVE SeqsUpTo(_, _)
SeqsUpTo(S, n) ==
    IF n = 0 THEN {<<>>}
    ELSE LET shorter == SeqsUpTo(S, n - 1)
         IN  shorter \cup {Append(q, x) : q \in shorter, x \in S}

ArtifactLists == SeqsUpTo(Artifacts, MaxArtifacts)
ArtifactRoots == {<<>>, <<AbsPath(<<No>>)>>}

\* The ids of the units of work that share a store: "a" with "b", with "a/b"
\* or with "a.hash".
IdA == RelPath(<<Na>>)
IdB == RelPath(<<Nb>>)
IdAB == RelPath(<<Na, Nb>>)
IdAHash == RelPath(<<Na \o DotHash>>)
Workspaces == {{IdA, IdB}, {IdA, IdAB}, {IdA, IdAHash}}

\* The bytes two different source sets feed to the hash.
Shas == {<<>>, <<"a">>}

\* The base directory the store is constructed with: "/c".
Base == AbsPath(<<Nc>>)

Keys == {_key_for(root, id, sha, <<>>) : id \in ids, sha \in Shas}

KeysOf(id) == {_key_for(root, id, sha, <<>>) : sha \in Shas}

\* The value of a variable while the machine it belongs to is not running.
Idle == <<>>

NoCall ==
    [op |-> "", key |-> NoKey, exc |-> "", ret |-> FALSE, copied |-> <<>>,
     wrote |-> FALSE, reads |-> 0, args |-> <<>>]

\* A key with what happened to it: whether update stored it, and how the
\* sources changed since it was computed ("" for not at all).
NoStamp == [key |-> NoKey, saved |-> FALSE, delta |-> ""]

(***************************************************************************)
(* The store as a state machine: fs is the filesystem, root the store's    *)
(* _root, ids the ids in use, last the latest call with its outcome.       *)
(***************************************************************************)
Init ==
    /\ root = init_root(Base)
    /\ fs = init_fs(BaseFS, Base)
    /\ ids \in Workspaces
    /\ last = NoCall
    /\ prev = NoStamp
    /\ cur = NoStamp
    /\ changes = 0
    /\ sys = Idle
    /\ env = Idle
    /\ procs = Idle

Update ==
    \E k \in Keys, arts \in ArtifactLists, ar \in ArtifactRoots :
      \E fault \in 0..Len(arts) :
        \E res \in {update(fs, root, k, arts, ar, fault)} :
            /\ fs' = res.fs
            /\ last' = [NoCall EXCEPT !.op = "update", !.key = k, !.exc = res.exc,
                                      !.copied = res.copied, !.wrote = res.wrote]
            /\ UNCHANGED <<root, ids, prev, cur, changes, sys, env, procs>>

Invalidate ==
    \E k \in Keys :
      \E res \in {invalidate(fs, root, k)} :
          /\ fs' = res.fs
          /\ last' = [NoCall EXCEPT !.op = "invalidate", !.key = k, !.exc = res.exc]
          /\ UNCHANGED <<root, ids, prev, cur, changes, sys, env, procs>>

NeedsUpdate ==
    \E k \in Keys :
      \E res \in {needs_update(fs, root, k)} :
          /\ fs' = fs
          /\ last' = [NoCall EXCEPT !.op = "needs_update", !.key = k, !.exc = res.exc,
                                    !.ret = res.ret]
          /\ UNCHANGED <<root, ids, prev, cur, changes, sys, env, procs>>

\* A client stores the same result twice in a row: update, and if it returned,
\* update again with the same key and artifacts.
UpdateTwice ==
    \E k \in Keys, arts \in ArtifactLists, ar \in ArtifactRoots :
      \E once \in {update(fs, root, k, arts, ar, 0)} :
        \E res \in {update(once.fs, root, k, arts, ar, 0)} :
          /\ once.exc = ""
          /\ fs' = res.fs
          /\ last' = [NoCall EXCEPT !.op = "update_twice", !.key = k, !.exc = res.exc,
                                    !.copied = res.copied, !.wrote = res.wrote]
          /\ UNCHANGED <<root, ids, prev, cur, changes, sys, env, procs>>

Next == Update \/ UpdateTwice \/ Invalidate \/ NeedsUpdate

Spec == Init /\ [][Next]_vars

(***************************************************************************)
(* Key construction as a state machine.  The source directory /s holds up  *)
(* to three files; a client computes a key (cur), may store it with        *)
(* update, then one source file is changed or renamed and the key is       *)
(* computed again (prev is the key before).                                *)
(***************************************************************************)
Ns == <<"s">>
SrcDir == AbsPath(<<Ns>>)
SrcNames == {<<"a", "b">>, <<"a", "b", "a">>, <<"b", "a">>}
Contents == SeqsUpTo({"a", "b"}, MaxContent)

SrcFile(name) == AbsPath(<<Ns, name>>)

\* The source trees a run starts from: the files "ab" and "aba" with any
\* contents.
SourceTrees == [{<<"a", "b">>, <<"a", "b", "a">>} -> Contents]

\* The filesystem with the source tree `data` (file name -> content) in /s.
WithSources(f, data) ==
    [dirs |-> f.dirs \cup {<<Ns>>},
     files |-> [n \in DOMAIN f.files \cup {<<Ns, name>> : name \in DOMAIN data} |->
                  IF n \in DOMAIN f.files THEN f.files[n] ELSE data[n[2]]]]

InitSources ==
    /\ root = init_root(Base)
    /\ \E data \in SourceTrees : fs = WithSources(init_fs(BaseFS, Base), data)
    /\ ids = {IdA}
    /\ last = NoCall
    /\ prev = NoStamp
    /\ cur = NoStamp
    /\ changes = 0
    /\ sys = Idle
    /\ env = Idle
    /\ procs = Idle

\* The ways a client names the sources: the directory, or its files in any
\* order.
SourceArgs ==
    {<<SrcDir>>}
      \cup {[i \in DOMAIN q |-> SrcFile(q[i])] : q \in Perms(ChildFiles(fs, <<Ns>>))}

KeyFor ==
    \E sources \in SourceArgs, ls \in Listings(fs, <<Ns>>) :
      \E res \in {key_for(fs, root, IdA, sources, ls)} :
          /\ res.exc = ""
          /\ prev' = cur
          /\ cur' = [key |-> res.key, saved |-> FALSE, delta |-> ""]
          /\ UNCHANGED <<fs, root, ids, last, changes, sys, env, procs>>

\* new differs from old in exactly one byte.
OneByte(old, new) ==
    /\ Len(old) = Len(new)
    /\ Cardinality({i \in DOMAIN old : old[i] # new[i]}) = 1

\* A source file is rewritten with other content.
Mutate ==
    \E name \in ChildFiles(fs, <<Ns>>), data \in Contents :
      LET old == fs.files[<<Ns, name>>]
      IN  /\ cur.key # NoKey
          /\ changes < MaxChanges
          /\ data # old
          /\ fs' = WriteFile(fs, SrcFile(name), data).fs
          /\ cur' = [cur EXCEPT !.delta = IF OneByte(old, data) THEN "byte"
                                          ELSE "content"]
          /\ prev' = NoStamp
          /\ changes' = changes + 1
          /\ UNCHANGED <<root, ids, last, sys, env, procs>>

\* os.rename of a file within its directory.
RenameFile(f, old, new) ==
    [f EXCEPT !.files =
       [n \in (DOMAIN f.files \ {old}) \cup {new} |->
          IF n = new THEN f.files[old] ELSE f.files[n]]]

Rename ==
    \E name \in ChildFiles(fs, <<Ns>>), new \in SrcNames :
      /\ cur.key # NoKey
      /\ changes < MaxChanges
      /\ new \notin ChildFiles(fs, <<Ns>>)
      /\ fs' = RenameFile(fs, <<Ns, name>>, <<Ns, new>>)
      /\ cur' = [cur EXCEPT !.delta = "rename"]
      /\ prev' = NoStamp
      /\ changes' = changes + 1
      /\ UNCHANGED <<root, ids, last, sys, env, procs>>

\* The build ran on the sources as fingerprinted and its result is stored.
Store ==
    /\ cur.key # NoKey
    /\ cur.delta = ""
    /\ ~cur.saved
    /\ \E res \in {update(fs, root, cur.key, <<>>, <<>>, 0)} :
         /\ res.exc = ""
         /\ fs' = res.fs
    /\ cur' = [cur EXCEPT !.saved = TRUE]
    /\ UNCHANGED <<root, ids, last, prev, changes, sys, env, procs>>

NextKeys == KeyFor \/ Mutate \/ Rename \/ Store

SpecKeys == InitSources /\ [][NextKeys]_vars

(***************************************************************************)
(* key_for_target applied to every target, scope and fingerprint_extra.    *)
(***************************************************************************)
\* A target with sources of its own and of its dependencies, and one with
\* no expand_files attribute.
Targets ==
    {[id |-> IdA, expand_files |-> TRUE,
      own |-> <<SrcFile(<<"a", "b", "a">>)>>,
      transitive |-> <<SrcFile(<<"a", "b", "a">>), SrcFile(<<"a", "b">>)>>],
     [id |-> IdB, expand_files |-> FALSE, own |-> <<>>, transitive |-> <<>>]}

ScopeArgs == {<<>>, <<NO_SOURCES>>, <<TARGET_SOURCES>>, <<TRANSITIVE_SOURCES>>}

\* fingerprint_extra: None, or a function that feeds the byte "b" to the hash.
ExtraArgs == {<<>>, <<<<"b">>>>}

KeyForTarget ==
    \E target \in Targets, sources \in ScopeArgs, extra \in ExtraArgs :
      \E ls \in Listings(fs, <<Ns>>) :
        \E res \in {key_for_target(fs, root, target, sources, extra, ls)} :
            /\ last' = [NoCall EXCEPT !.op = "key_for_target", !.key = res.key,
                                      !.exc = res.exc, !.reads = res.reads,
                                      !.args = <<target, sources, extra>>]
            /\ UNCHANGED <<fs, root, ids, prev, cur, changes, sys, env, procs>>

SpecTarget == InitSources /\ [][KeyForTarget]_vars

(***************************************************************************)
(* What a client sees of an entry: the tree below the entry directory and  *)
(* what reading the marker gives.                                          *)
(***************************************************************************)
EntryDir(f, cache_key) ==
    [exists |-> os_path_exists(f, cache_key.filename),
     tree |-> SubTree(f, Resolve(cache_key.filename))]

Marker(f, r, cache_key) == ReadFile(f, _sha_file(r, cache_key))

EntryView(f, r, cache_key) ==
    [dir |-> EntryDir(f, cache_key), marker |-> Marker(f, r, cache_key)]

\* The ids in use are unrelated names: none is a path prefix of another and
\* none is another followed by ".hash".
UnrelatedIds == ids = {IdA, IdB}

\* The calls of update a client can make.
UpdateCalls ==
    {[key |-> k, arts |-> arts, ar |-> ar, fault |-> fault] :
       k \in Keys, arts \in ArtifactLists, ar \in ArtifactRoots,
       fault \in 0..MaxArtifacts}

DoUpdate(f, c) == update(f, root, c.key, c.arts, c.ar, c.fault)

(***************************************************************************)
(* C1.  A failed update never leaves the entry looking fresh: whenever an  *)
(* update(key, artifacts) call raises (a copy or mkdir error, a rejected   *)
(* artifact path), the next needs_update(key) returns True, whatever state *)
(* the entry was in before.  Stated for unrelated ids, so that a violation *)
(* is update's own and not an effect of two entries sharing paths.         *)
(***************************************************************************)
C1_FailedUpdateNeverFresh ==
    UnrelatedIds =>
      \A c \in UpdateCalls :
        \A res \in {DoUpdate(fs, c)} :
          res.exc # "" =>
            needs_update(res.fs, root, c.key) = [exc |-> "", ret |-> TRUE]

(***************************************************************************)
(* C2.  Round trip: after update(key, artifacts) returns, needs_update(key) *)
(* returns False; and after a fingerprinted source file is rewritten with  *)
(* other content and the key is computed again for the same id and the     *)
(* same sources, needs_update(new key) returns True.                       *)
(***************************************************************************)
C2_RoundTrip ==
    /\ cur.saved => needs_update(fs, root, cur.key) = [exc |-> "", ret |-> FALSE]
    /\ ( /\ prev.saved
         /\ prev.delta \in {"byte", "content"}
         /\ cur.key # NoKey
         /\ ~cur.saved
         /\ cur.key.sources = prev.key.sources )
       => needs_update(fs, root, cur.key) = [exc |-> "", ret |-> TRUE]

(***************************************************************************)
(* C3.  Isolation: for any two distinct ids A and B in use, update or      *)
(* invalidate on a key of A leaves B's entry directory and B's marker as   *)
(* they were.                                                              *)
(***************************************************************************)
C3_Isolation ==
    \A A \in ids, B \in ids :
      A # B =>
        \A kB \in KeysOf(B) :
          /\ \A c \in UpdateCalls :
               c.key \in KeysOf(A) =>
                 EntryView(DoUpdate(fs, c).fs, root, kB) = EntryView(fs, root, kB)
          /\ \A kA \in KeysOf(A) :
               EntryView(invalidate(fs, root, kA).fs, root, kB) = EntryView(fs, root, kB)

(***************************************************************************)
(* C4.  Traversal safety: if the destination computed for an artifact      *)
(* passed to update resolves outside the entry directory, update raises:   *)
(* the AssertionError of the traversal check, unless the copy of an        *)
(* earlier artifact already failed; no artifact from the offending one on  *)
(* is copied, and the call writes no marker.                               *)
(***************************************************************************)
Escapes(cache_key, artifact, artifact_root) ==
    ~IsPrefix(Resolve(cache_key.filename),
              Resolve(os_path_join(cache_key.filename,
                                   rel_path_of(artifact, artifact_root))))

C5_Determinism ==
    \A s1 \in SourceArgs, s2 \in SourceArgs :
      \A l1 \in Listings(fs, <<Ns>>), l2 \in Listings(fs, <<Ns>>) :
        key_for(fs, root, IdA, s1, l1).key.hash = key_for(fs, root, IdA, s2, l2).key.hash

(***************************************************************************)
(* C6.  Sensitivity: changing one byte of an included file, or renaming    *)
(* one file while keeping its content, yields a digest different from the  *)
(* one before.  Stated for keys computed from the files named one by one,  *)
(* where no directory listing order is involved.                           *)
(***************************************************************************)
Explicit(stamp) == stamp.key # NoKey /\ stamp.key.sources # <<SrcDir>>

C6_Sensitivity ==
    (Explicit(prev) /\ Explicit(cur) /\ prev.delta \in {"byte", "rename"})
      => cur.key.hash # prev.key.hash

C8_NeedsUpdate ==
    \A k \in Keys :
      \A nu \in {needs_update(fs, root, k)} :
        /\ nu.exc = ""
        /\ nu.ret <=> ( \/ ~IsFileNode(fs, Resolve(_sha_file(root, k)))
                        \/ Marker(fs, root, k).data # k.hash )
        /\ needs_update(safe_rmtree(fs, k.filename), root, k) = nu

(***************************************************************************)
(* C9.  invalidate(key) takes the entry from any state to absent, without  *)
(* error: afterwards neither the entry directory nor the marker exists and *)
(* needs_update returns True for every key of that id.                     *)
(***************************************************************************)
C9_Invalidate ==
    \A id \in ids :
      \A k \in KeysOf(id) :
        \A res \in {invalidate(fs, root, k)} :
          /\ res.exc = ""
          /\ ~os_path_exists(res.fs, k.filename)
          /\ ~os_path_exists(res.fs, _sha_file(root, k))
          /\ \A k2 \in KeysOf(id) :
               needs_update(res.fs, root, k2) = [exc |-> "", ret |-> TRUE]

(***************************************************************************)
(* C10.  key_for_target raises ValueError whenever the selector is missing *)
(* or not valid for the target and no fingerprint_extra is given, and it   *)
(* has read no file by then.                                               *)
(***************************************************************************)
C10_InvalidKeyRequest ==
    ( /\ last.op = "key_for_target"
      /\ last.args[2] = <<>> \/ ~valid(last.args[2][1], last.args[1])
      /\ last.args[3] = <<>> )
      => last.exc = "ValueError" /\ last.reads = 0 /\ last.key = NoKey

\* A selector was given that the target does not support, and nothing else.
C10_Witness ==
    /\ last.op = "key_for_target"
    /\ last.args[2] = <<TARGET_SOURCES>>
    /\ ~valid(TARGET_SOURCES, last.args[1])
    /\ last.args[3] = <<>>
    /\ last.exc = "ValueError"

(***************************************************************************)
(* The store opened under two spellings of one base directory: the         *)
(* absolute "/w/c" and, with "/w" the working directory, the relative "c". *)
(***************************************************************************)
Bases == {AbsPath(Cwd \o <<Nc>>), RelPath(<<Nc>>)}

InitLayout ==
    /\ \E base \in Bases :
         /\ root = init_root(base)
         /\ fs = init_fs(BaseFS, base)
    /\ ids = {IdA, IdB}
    /\ last = NoCall
    /\ prev = NoStamp
    /\ cur = NoStamp
    /\ changes = 0
    /\ sys = Idle
    /\ env = Idle
    /\ procs = Idle

\* BuildCache(base) is constructed again, on the same directory.
Open ==
    \E base \in Bases :
      /\ root' = init_root(base)
      /\ fs' = init_fs(fs, base)
      /\ last' = [NoCall EXCEPT !.op = "init"]
      /\ UNCHANGED <<ids, prev, cur, changes, sys, env, procs>>

NextLayout == Open \/ Update \/ Invalidate \/ NeedsUpdate

SpecLayout == InitLayout /\ [][NextLayout]_vars

\* <base>/<version>/<id> and <base>/<version>/<id>.hash as nodes.
LayoutDir(r, id) == Resolve(os_path_join(r, id))
LayoutMarker(r, id) == Resolve(PathPlus(os_path_join(r, id), DotHash))

(***************************************************************************)
(* C11.  For an absolute or a relative base and every id: an update that   *)
(* returns has put the artifacts under <base>/<version>/<id> and the       *)
(* marker, holding exactly key.hash, at <base>/<version>/<id>.hash;        *)
(* needs_update answers from the marker at that location and invalidate    *)
(* leaves no marker there.                                                 *)
(***************************************************************************)
C11_Layout ==
    \A id \in ids :
      \A k \in KeysOf(id) :
        /\ \A c \in UpdateCalls :
             c.key = k =>
               \A res \in {DoUpdate(fs, c)} :
                 res.exc = "" =>
                   /\ IsFileNode(res.fs, LayoutMarker(root, id))
                   /\ res.fs.files[LayoutMarker(root, id)] = k.hash
                   /\ c.arts # <<>> => IsDirNode(res.fs, LayoutDir(root, id))
        /\ needs_update(fs, root, k)
             = differs(read_result(ReadNode(fs, LayoutMarker(root, id))), k.hash)
        /\ ~ExistsNode(invalidate(fs, root, k).fs, LayoutMarker(root, id))

(***************************************************************************)
(* use_cached_files.  copy_fn is the caller's: the model records the calls *)
(* made to it, [src, dst] for copy_fn(src, dst), in order.                 *)
(***************************************************************************)
\* The arguments the wrong way round: copy_fn(relative_filename, filename).
copy_calls_swapped(pairs) ==
    [i \in DOMAIN pairs |-> [src |-> pairs[i].rel, dst |-> pairs[i].file]]

\* use_cached_files, lines 156-157: copy_fn(filename, relative_filename).
copy_calls(pairs) ==
    [i \in DOMAIN pairs |-> [src |-> pairs[i].file, dst |-> pairs[i].rel]]

use_cached_files(f, cache_key, ls) ==
    copy_calls(_walk_paths(f, <<cache_key.filename>>, ls))

UseCachedFiles ==
    \E k \in Keys :
      \E ls \in Listings(fs, Resolve(k.filename)) :
        /\ last' = [NoCall EXCEPT !.op = "use_cached_files", !.key = k,
                                  !.args = use_cached_files(fs, k, ls)]
        /\ UNCHANGED <<fs, root, ids, prev, cur, changes, sys, env, procs>>

NextUse == Update \/ Invalidate \/ UseCachedFiles

SpecUse == Init /\ [][NextUse]_vars

\* The files stored below the entry directory of a key, as nodes.
StoredFiles(f, cache_key) ==
    {n \in DOMAIN f.files :
       IsPrefix(Resolve(cache_key.filename), n) /\ n # Resolve(cache_key.filename)}

\* The calls of use_cached_files a client can make, with their outcome.
UseCalls ==
    UNION {{[key |-> k, calls |-> use_cached_files(fs, k, ls)] :
              ls \in Listings(fs, Resolve(k.filename))} : k \in Keys}

C18_OnlyStoredFiles ==
    \A u \in UseCalls :
      /\ \A i \in DOMAIN u.calls : Resolve(u.calls[i].src) \in StoredFiles(fs, u.key)
      /\ ~os_path_isdir(fs, u.key.filename) => u.calls = <<>>

(***************************************************************************)
(* twitter.common.contextutil.mutable_sys.  The interpreter's sys module   *)
(* is attrs, a map from attribute names to object references (Missing for  *)
(* an attribute that does not exist), and heap, the objects: heap[r] is    *)
(* the content of object r (the items of a list).  pc is "out" before a    *)
(* with-block, "in" inside it and "left" after it.                         *)
(***************************************************************************)
SAVED_ATTRIBUTES ==
    <<"stdin", "stdout", "stderr", "argv", "path", "path_importer_cache",
      "path_hooks", "modules", "__egginsert">>

SavedNames == {SAVED_ATTRIBUTES[i] : i \in DOMAIN SAVED_ATTRIBUTES}

\* The reference of no object: objects are numbered from 1.
Missing == 0

hasattr(s, key) == s.attrs[key] # Missing

\* sys as the interpreter starts: every saved attribute but __egginsert
\* exists, each bound to an object of its own.
Interpreter ==
    [attrs |-> [key \in SavedNames |->
                  IF key = "__egginsert" THEN Missing
                  ELSE CHOOSE i \in DOMAIN SAVED_ATTRIBUTES : SAVED_ATTRIBUTES[i] = key],
     heap |-> [r \in 1..(Len(SAVED_ATTRIBUTES) - 1) |-> <<>>],
     backup |-> <<>>, delete |-> {}, entry |-> <<>>, pc |-> "out", raised |-> FALSE]

\* What a reader of sys.<key> sees: the object and its content.
Seen(s, key) ==
    IF hasattr(s, key) THEN [ref |-> s.attrs[key], val |-> s.heap[s.attrs[key]]]
    ELSE [ref |-> Missing, val |-> <<>>]

\* mutable_sys, lines 122-123: _sys_backup holds the objects the attributes
\* are bound to, _sys_delete the names that do not exist.
sys_backup(s) == [key \in {k \in SavedNames : hasattr(s, k)} |-> s.attrs[key]]
sys_delete(s) == {key \in SavedNames : ~hasattr(s, key)}

\* mutable_sys up to the yield.  entry records what sys looked like.
mutable_sys_enter(s) ==
    [s EXCEPT !.backup = sys_backup(s), !.delete = sys_delete(s),
              !.entry = [key \in SavedNames |-> Seen(s, key)],
              !.pc = "in", !.raised = FALSE]

\* mutable_sys, lines 127-132: the finally clause.
mutable_sys_exit(s, raised) ==
    [s EXCEPT !.attrs = [key \in SavedNames |->
                           IF key \in DOMAIN s.backup THEN s.backup[key]
                           ELSE IF key \in s.delete THEN Missing
                           ELSE s.attrs[key]],
              !.pc = "left", !.raised = raised]

\* What the block does to sys: the attributes it touches.
BlockAttrs == {"stdout", "path", "__egginsert"}

Quiet ==
    /\ fs = BaseFS
    /\ root = init_root(Base)
    /\ ids = {}
    /\ last = NoCall
    /\ prev = NoStamp
    /\ cur = NoStamp
    /\ changes = 0

InitSys == Quiet /\ sys = Interpreter /\ env = Idle /\ procs = Idle

SysFrame == UNCHANGED <<fs, root, ids, last, prev, cur, changes, env, procs>>

SysEnter ==
    /\ sys.pc # "in"
    /\ sys' = mutable_sys_enter(sys)
    /\ SysFrame

\* sys.<key> = <a new object>
SysSet ==
    \E key \in BlockAttrs :
      /\ sys.pc = "in"
      /\ Len(sys.heap) < Len(Interpreter.heap) + MaxNew
      /\ sys' = [sys EXCEPT !.heap = Append(@, <<"n">>),
                            !.attrs[key] = Len(sys.heap) + 1]
      /\ SysFrame

\* sys.<key>.append(...): the object is changed in place.
SysAppend ==
    \E key \in BlockAttrs :
      /\ sys.pc = "in"
      /\ hasattr(sys, key)
      /\ Len(sys.heap[sys.attrs[key]]) < MaxAppend
      /\ sys' = [sys EXCEPT !.heap[sys.attrs[key]] = Append(@, "x")]
      /\ SysFrame

\* del sys.<key>
SysDel ==
    \E key \in BlockAttrs :
      /\ sys.pc = "in"
      /\ hasattr(sys, key)
      /\ sys' = [sys EXCEPT !.attrs[key] = Missing]
      /\ SysFrame

\* The block ends, normally or by an exception.
SysExit ==
    \E raised \in BOOLEAN :
      /\ sys.pc = "in"
      /\ sys' = mutable_sys_exit(sys, raised)
      /\ SysFrame

NextSys == SysEnter \/ SysSet \/ SysAppend \/ SysDel \/ SysExit

SpecSys == InitSys /\ [][NextSys]_vars

(***************************************************************************)
(* C13.  After a mutable_sys() block is left, normally or by exception,    *)
(* every saved attribute has the value it had on entry, also when the      *)
(* block changed the object in place, and an attribute that did not exist  *)
(* on entry does not exist.                                                *)
(***************************************************************************)
C13_MutableSys ==
    sys.pc = "left" => \A key \in SavedNames : Seen(sys, key) = sys.entry[key]

(***************************************************************************)
(* update statement by statement, for processes that share a store.  A     *)
(* process is [key, arts, ar, pc, i, exc, log]: the arguments of its call, *)
(* the statement it is at ("start": line 132, "copy": the loop body for    *)
(* artifact i, "mark": line 147, then "done" or "failed"), the exception   *)
(* that ended it, and the statements it has executed.  No lock is taken    *)
(* anywhere in update, so the statements of two processes interleave.      *)
(***************************************************************************)
Process(cache_key, build_artifacts, artifact_root) ==
    [key |-> cache_key, arts |-> build_artifacts, ar |-> artifact_root,
     pc |-> "start", i |-> 1, exc |-> "", log |-> <<>>]

\* A failed copy does not stop the call: the marker is written all the same.
copied_pc_mark(one, q) == IF q.i = Len(q.arts) \/ one.exc # "" THEN "mark" ELSE "copy"

\* Where the call goes after the loop body ran for artifact q.i.
copied_pc(one, q) ==
    IF one.exc # "" THEN "failed"
    ELSE IF q.i = Len(q.arts) THEN "mark" ELSE "copy"

\* update, line 132.  [fs, proc]
step_start(f, q) ==
    [fs |-> safe_rmtree(f, q.key.filename),
     proc |-> [q EXCEPT !.pc = IF q.arts = <<>> THEN "mark" ELSE "copy",
                        !.log = Append(@, "rmtree")]]

\* update, lines 133-146, for artifact q.i, on what staging it gave.
step_copied(one, q) ==
    [fs |-> one.fs,
     proc |-> [q EXCEPT !.pc = copied_pc(one, q), !.i = @ + 1, !.exc = one.exc,
                        !.log = IF one.exc = "" THEN Append(@, "copy") ELSE @]]

step_copy(f, q) == step_copied(stage_artifact(f, q.key, q.arts[q.i], q.ar, FALSE), q)

\* update, line 147, on what writing the marker gave.
step_marked(marked, q) ==
    [fs |-> marked.fs,
     proc |-> [q EXCEPT !.pc = IF marked.err = "" THEN "done" ELSE "failed",
                        !.exc = IF marked.err = "" THEN q.exc ELSE "IOError",
                        !.log = IF marked.err = "" THEN Append(@, "mark") ELSE @]]

step_mark(f, r, q) == step_marked(_write_sha(f, r, q.key), q)

update_step(f, r, q) ==
    IF q.pc = "start" THEN step_start(f, q)
    ELSE IF q.pc = "copy" THEN step_copy(f, q)
    ELSE step_mark(f, r, q)

\* Two processes store results for the id "a" under different keys.
Pids == {1, 2}
RaceKey(pid) == _key_for(init_root(Base), IdA, IF pid = 1 THEN <<>> ELSE <<"a">>, <<>>)

InitRace ==
    /\ root = init_root(Base)
    /\ fs = init_fs(BaseFS, Base)
    /\ ids = {IdA}
    /\ last = NoCall
    /\ prev = NoStamp
    /\ cur = NoStamp
    /\ changes = 0
    /\ sys = Idle
    /\ env = Idle
    /\ \E a1 \in ArtifactLists, a2 \in ArtifactLists, ar \in ArtifactRoots :
         /\ a1 # a2
         /\ procs = [pid \in Pids |->
                       Process(RaceKey(pid), IF pid = 1 THEN a1 ELSE a2, ar)]

\* One process executes its next statement.  last.ret tells whether the
\* statement wrote the marker, last.args which process it was; cur is the key
\* of the process that wrote the marker most recently.
Step ==
    \E pid \in Pids :
      /\ procs[pid].pc \in {"start", "copy", "mark"}
      /\ \E res \in {update_step(fs, root, procs[pid])} :
           /\ fs' = res.fs
           /\ procs' = [procs EXCEPT ![pid] = res.proc]
           /\ last' = [NoCall EXCEPT !.op = "step", !.key = procs[pid].key,
                                     !.exc = res.proc.exc,
                                     !.ret = (procs[pid].pc = "mark"
                                                /\ res.proc.pc = "done"),
                                     !.args = <<pid>>]
           /\ cur' = IF procs[pid].pc = "mark" /\ res.proc.pc = "done"
                     THEN [NoStamp EXCEPT !.key = procs[pid].key, !.saved = TRUE]
                     ELSE cur
      /\ UNCHANGED <<root, ids, prev, changes, sys, env>>

SpecRace == InitRace /\ [][Step]_vars

\* How often a statement occurs in a log.
Count(log, what) == Cardinality({j \in DOMAIN log : log[j] = what})

(***************************************************************************)
(* C14.  Within one update call the marker write is the last statement:    *)
(* it comes after the entry directory was removed and after every artifact *)
(* was copied, and a call in which staging failed writes no marker.        *)
(***************************************************************************)
C14_MarkerLast ==
    \A pid \in Pids :
      \A q \in {procs[pid]} :
        /\ \A j \in DOMAIN q.log :
             q.log[j] = "mark" =>
               /\ j = Len(q.log)
               /\ q.log[1] = "rmtree"
               /\ Count(q.log, "copy") = Len(q.arts)
               /\ q.exc = ""
        /\ (q.pc = "failed" /\ Count(q.log, "copy") < Len(q.arts))
             => Count(q.log, "mark") = 0

\* A call copied an artifact, failed on the next one and is over; another
\* call ran to its marker.
C14_Witness ==
    \E pid \in Pids, other \in Pids :
      /\ procs[pid].pc = "failed"
      /\ procs[pid].exc = "AssertionError"
      /\ Count(procs[pid].log, "copy") = 1
      /\ procs[other].pc = "done"
      /\ Count(procs[other].log, "copy") = Len(procs[other].arts)
      /\ procs[other].arts # <<>>

(***************************************************************************)
(* Results stored from a build output area with a file two levels below    *)
(* the artifact root.                                                      *)
(***************************************************************************)
ArtDY == AbsPath(<<No, Nd, Ny>>)

DeepLists == SeqsUpTo({ArtD, ArtPX, ArtDY}, MaxArtifacts)

\* One key per id: the digest has no part in what is stored.
StoreKeys == {_key_for(root, id, <<>>, <<>>) : id \in ids}

StoreCalls ==
    {[key |-> k, arts |-> arts, ar |-> ar, fault |-> 0] :
       k \in StoreKeys, arts \in DeepLists, ar \in ArtifactRoots}

StoreResult ==
    \E c \in StoreCalls :
      \E res \in {DoUpdate(fs, c)} :
        /\ fs' = res.fs
        /\ last' = [NoCall EXCEPT !.op = "update", !.key = c.key, !.exc = res.exc,
                                  !.copied = res.copied, !.wrote = res.wrote,
                                  !.args = <<c.arts, c.ar>>]
        /\ UNCHANGED <<root, ids, prev, cur, changes, sys, env, procs>>

SpecReplace == Init /\ [][StoreResult]_vars

\* What the entry directory contains; nothing when there is no such directory.
EntryTree(f, cache_key) ==
    IF os_path_isdir(f, cache_key.filename) THEN EntryDir(f, cache_key).tree
    ELSE [dirs |-> {}, files |-> {}]

\* Where an artifact belongs below the entry directory, as path components.
RelOf(artifact, artifact_root) ==
    IF artifact_root = <<>> THEN <<artifact.parts[Len(artifact.parts)]>>
    ELSE SubSeq(Resolve(artifact), Len(Resolve(artifact_root[1])) + 1,
                Len(Resolve(artifact)))

\* The tree of one artifact placed at `rel`, with the directories leading to
\* it.
Placed(f, artifact, rel) ==
    [dirs |-> {SubSeq(rel, 1, n) : n \in 0..(Len(rel) - 1)}
                \cup {rel \o d : d \in SubTree(f, Resolve(artifact)).dirs},
     files |-> {<<rel \o pf[1], pf[2]>> : pf \in SubTree(f, Resolve(artifact)).files}]

\* The entry directory holding exactly the artifacts, each at its place.
Exactly(f, arts, artifact_root) ==
    [dirs |-> UNION {Placed(f, arts[i], RelOf(arts[i], artifact_root)).dirs :
                       i \in DOMAIN arts},
     files |-> UNION {Placed(f, arts[i], RelOf(arts[i], artifact_root)).files :
                        i \in DOMAIN arts}]

C16_ExtraSuffices ==
    (last.op = "key_for_target" /\ last.args[3] # <<>>)
      => last.exc = "" /\ last.key # NoKey

(***************************************************************************)
(* C17.  Two processes run update on the same id with different keys and   *)
(* artifacts, their statements interleaving freely.  The marker is always  *)
(* the one written last; and a state is reachable where the marker equals  *)
(* one process's digest while the entry directory does not hold exactly    *)
(* that process's artifacts.                                               *)
(***************************************************************************)
C17_LastWriterWins ==
    \A pid \in Pids :
      /\ cur.saved => Marker(fs, root, procs[pid].key) = [err |-> "", data |-> cur.key.hash]
      /\ ~cur.saved => Marker(fs, root, procs[pid].key).err = "ENOENT"

\* Both calls returned, the entry is fresh for the key written last, and the
\* entry directory is not what that call stored.
C17_Witness ==
    \E pid \in Pids :
      /\ \A other \in Pids : procs[other].pc = "done"
      /\ cur.key = procs[pid].key
      /\ needs_update(fs, root, procs[pid].key) = [exc |-> "", ret |-> FALSE]
      /\ EntryTree(fs, procs[pid].key) # Exactly(fs, procs[pid].arts, procs[pid].ar)

(***************************************************************************)
(* contextutil.environment_as.  The state is os.environ (the mapping the   *)
(* interpreter keeps), the process environment that putenv and unsetenv    *)
(* change, and one frame per block that is open.  A value is <<>> (None,   *)
(* the variable is unset) or <<v>>.                                        *)
(***************************************************************************)
MaxDepth == 2

EnvNames == {"X", "Y"}

EnvValues == {<<>>, <<"a">>, <<"b">>}

\* The keyword arguments of a call: some variables, each with a value or None.
Kwargs == UNION {[names -> EnvValues] : names \in (SUBSET EnvNames) \ {{}}}

\* setenv: putenv for a value, unsetenv for None; os.environ is not touched.
setenv(process, key, val) == [process EXCEPT ![key] = val]

\* Applies setenv to every item of a dictionary (the keys are distinct).
setenv_all(process, items) ==
    [key \in EnvNames |-> IF key \in DOMAIN items
                          THEN setenv(process, key, items[key])[key]
                          ELSE process[key]]

\* old_environment[key] = os.environ.get(key) for each keyword argument.
old_environment(e, new_environment) ==
    [key \in DOMAIN new_environment |-> e.environ[key]]

\* Entering the block: save, then set.  entry is the process environment as
\* it was, kept for the claim only.
environment_as_enter(e, new_environment) ==
    [e EXCEPT !.process = setenv_all(e.process, new_environment),
              !.frames = Append(e.frames,
                                [old |-> old_environment(e, new_environment),
                                 entry |-> e.process]),
              !.left = <<>>,
              !.raised = FALSE]

\* The finally clause of the innermost open block: setenv of every saved
\* item, the same whether the body returned or raised.
environment_as_exit(e, raised) ==
    [e EXCEPT !.process = setenv_all(e.process, e.frames[Len(e.frames)].old),
              !.frames = SubSeq(e.frames, 1, Len(e.frames) - 1),
              !.left = <<e.frames[Len(e.frames)]>>,
              !.raised = raised]

\* At start-up os.environ is a copy of the process environment.
InitEnv ==
    /\ Quiet
    /\ sys = Idle
    /\ procs = Idle
    /\ \E start \in [EnvNames -> EnvValues] :
         env = [environ |-> start, process |-> start, frames |-> <<>>,
                left |-> <<>>, raised |-> FALSE]

EnvFrame == UNCHANGED <<fs, root, ids, last, prev, cur, changes, sys, procs>>

EnvEnter ==
    /\ Len(env.frames) < MaxDepth
    /\ \E new_environment \in Kwargs :
         env' = environment_as_enter(env, new_environment)
    /\ EnvFrame

EnvExit ==
    /\ env.frames # <<>>
    /\ \E raised \in BOOLEAN : env' = environment_as_exit(env, raised)
    /\ EnvFrame

NextEnv == EnvEnter \/ EnvExit

SpecEnv == InitEnv /\ [][NextEnv]_vars

(***************************************************************************)
(* C19.  When an environment_as block has just been left, normally or by   *)
(* an exception, every variable it set or unset has in the process         *)
(* environment the value it had there when the block was entered, nested   *)
(* blocks on the same variable included.                                   *)
(***************************************************************************)
C19_EnvironmentRestored ==
    env.left # <<>> =>
       \A key \in DOMAIN env.left[1].old : env.process[key] = env.left[1].entry[key]

====
